---- MODULE Spec2Model ----
(***************************************************************************)
(* Dynamic 3D Delaunay triangulation kernel (SpaceNode / Edge /            *)
(* Tetrahedron): a state machine of the public operations getNewInstance,  *)
(* insert, remove and moveTo over a small universe of integer positions.   *)
(*                                                                         *)
(* Node ids are 1..id_counter_ ; 0 stands for the null node of an infinite *)
(* tetrahedron.  A tetrahedron is the tuple of its four adjacent nodes     *)
(* (slot 1 is 0 for an infinite one), a triangle is the set of its three   *)
(* nodes, an edge is the pair <<a_, b_>>.                                  *)
(***************************************************************************)
EXTENDS Integers, Sequences, FiniteSets, TLC

\* ------------------------------------------------------------------ bounds
MaxNodes == 6
MaxOps == 3
NumListeners == 1
MaxRequesters == 1

\* The universe of positions the client may pass to the kernel.
Positions ==
  << <<4, 2, 2>>, <<2, 3, 3>>, <<1, 4, 0>>, <<0, 0, 0>>,
     <<1, 2, 1>>, <<2, 3, 2>>, <<3, 1, 2>> >>

\* A second session of the client: eight nodes in general position, and two
\* more positions nodes are moved to.
CrowdedPositions ==
  << <<1, 5, 2>>, <<5, 4, 3>>, <<5, 2, 0>>, <<3, 5, 3>>, <<4, 1, 2>>,
     <<2, 4, 2>>, <<0, 1, 5>>, <<5, 4, 4>>, <<3, 3, 4>>, <<4, 2, 1>> >>

CrowdedNodes == 8

CrowdedOps == 5

NullNode == 0

\* ---------------------------------------------------------------- helpers
Sgn(x) == IF x > 0 THEN 1 ELSE IF x < 0 THEN -1 ELSE 0

Min(S) == CHOOSE x \in S : \A y \in S : x <= y

RECURSIVE SortedSeq(_)
SortedSeq(S) == IF S = {} THEN <<>>
                ELSE LET m == Min(S) IN <<m>> \o SortedSeq(S \ {m})

\* lexicographic order on triples
Less3(a, b) ==
  \/ a[1] < b[1]
  \/ a[1] = b[1] /\ a[2] < b[2]
  \/ a[1] = b[1] /\ a[2] = b[2] /\ a[3] < b[3]

Range(s) == {s[i] : i \in 1..Len(s)}

Contains(s, x) == \E i \in 1..Len(s) : s[i] = x

\* STLUtil::vectorRemove: removes the first occurrence of x
RECURSIVE vectorRemove(_, _)
vectorRemove(s, x) ==
  IF s = <<>> THEN <<>>
  ELSE IF Head(s) = x THEN Tail(s)
  ELSE <<Head(s)>> \o vectorRemove(Tail(s), x)

\* --------------------------------------------------------------- geometry
Sub(a, b) == <<a[1] - b[1], a[2] - b[2], a[3] - b[3]>>

Dot(a, b) == a[1] * b[1] + a[2] * b[2] + a[3] * b[3]

Det3(r1, r2, r3) ==
    r1[1] * (r2[2] * r3[3] - r2[3] * r3[2])
  - r1[2] * (r2[1] * r3[3] - r2[3] * r3[1])
  + r1[3] * (r2[1] * r3[2] - r2[2] * r3[1])

\* Six times the signed volume of the tetrahedron a b c d.
Orient3(a, b, c, d) == Det3(Sub(a, d), Sub(b, d), Sub(c, d))

\* The in-sphere determinant of e against the sphere through a b c d.
InSphereDet(a, b, c, d, e) ==
  LET A == Sub(a, e)  B == Sub(b, e)  C == Sub(c, e)  D == Sub(d, e)
  IN  0 - ( Dot(A, A) * Det3(B, C, D) - Dot(B, B) * Det3(A, C, D)
          + Dot(C, C) * Det3(A, B, D) - Dot(D, D) * Det3(A, B, C) )

\* +1 inside, 0 on, -1 outside the circumsphere of a b c d
SphereSide(a, b, c, d, e) == Sgn(InSphereDet(a, b, c, d, e)) * Sgn(Orient3(a, b, c, d))

\* ------------------------------------------------------------- tetrahedra
NoTet == <<>>

NodesOf(t) == {t[i] : i \in 1..4}

\* Tetrahedron::isInfinite: the first endpoint is null
isInfinite(t) == t[1] = NullNode

\* adjacent_triangles_[i] lies opposite to adjacent_nodes_[i]
TriangleAt(t, i) == NodesOf(t) \ {t[i]}

getOppositeNode(t, tri) == CHOOSE n \in NodesOf(t) : n \notin tri

isAdjacentTo(t, n) == n \in NodesOf(t)

\* the valid tetrahedra a triangle is incident to
TetsAt(W, tri) == {t \in W.tets : tri \subseteq NodesOf(t)}

\* Triangle3D::getOppositeTetrahedron: the incident tetrahedron other than t
getOppositeTetrahedron(W, tri, t) ==
  LET S == TetsAt(W, tri) \ {t}
  IN  IF S = {} THEN NoTet ELSE CHOOSE x \in S : TRUE

isCompletelyOpen(W, tri) == TetsAt(W, tri) = {}

isNeighbor(W, t, u) ==
  u # NoTet /\ u # t /\ \E i \in 1..4 : getOppositeTetrahedron(W, TriangleAt(t, i), t) = u

\* The node tuple of the tetrahedron built on a triangle and a fourth point:
\* the fourth point comes first, unless a null node takes the first slot.
MakeTet(tri, apex) ==
  IF apex = NullNode THEN <<NullNode>> \o SortedSeq(tri)
  ELSE IF NullNode \in tri THEN <<NullNode, apex>> \o SortedSeq(tri \ {NullNode})
  ELSE <<apex>> \o SortedSeq(tri)

\* the six endpoint pairs of a tetrahedron, by edge number
EdgeSlots == << <<1, 2>>, <<1, 3>>, <<1, 4>>, <<2, 3>>, <<2, 4>>, <<3, 4>> >>

EdgePair(t, k) ==
  LET a == t[EdgeSlots[k][1]]  b == t[EdgeSlots[k][2]]
  IN  IF a < b THEN <<a, b>> ELSE <<b, a>>

\* Edge::getOpposite as the kernel calls it, with an endpoint of the edge
getOpposite(e, n) == IF n = e[1] THEN e[2] ELSE e[1]

\* SpaceNode::searchEdge: the edge of node a whose opposite endpoint is b, if any
FoundEdges(W, a, b) == {e \in Range(W.nedges[a]) : getOpposite(e, a) = b}

\* SpaceNode::addEdge: push_back
addEdge(nedges, n, e) == [nedges EXCEPT ![n] = Append(@, e)]

\* Edge::initializationHelper: the new edge registers with both endpoints
EdgeCreate(W, a, b) ==
  LET e  == <<a, b>>
      n1 == IF a # NullNode THEN addEdge(W.nedges, a, e) ELSE W.nedges
      n2 == IF b # NullNode THEN addEdge(n1, b, e) ELSE n1
  IN  [W EXCEPT !.nedges = n2,
                !.etets = [x \in DOMAIN W.etets \cup {e} |->
                             IF x \in DOMAIN W.etets THEN W.etets[x] ELSE {}],
                !.area = [x \in DOMAIN W.area \cup {e} |->
                            IF x \in DOMAIN W.area THEN W.area[x] ELSE 0]]

\* Edge::addTetrahedron
EdgeAddTetrahedron(W, e, t) == [W EXCEPT !.etets[e] = @ \cup {t}]

\* SpaceNode::removeEdge via Edge::remove: both endpoints drop the edge
EdgeRemove(W, e) ==
  LET n1 == IF e[1] # NullNode
            THEN [W.nedges EXCEPT ![e[1]] = vectorRemove(@, e)] ELSE W.nedges
      n2 == IF e[2] # NullNode
            THEN [n1 EXCEPT ![e[2]] = vectorRemove(@, e)] ELSE n1
  IN  [W EXCEPT !.nedges = n2,
                !.etets = [x \in DOMAIN W.etets \ {e} |-> W.etets[x]],
                !.area = [x \in DOMAIN W.area \ {e} |-> W.area[x]]]

\* Edge::removeTetrahedron removing the edge with any tetrahedron it loses
EdgeRemoveTetrahedronAlways(W, e, t) == EdgeRemove(W, e)

\* Edge::removeTetrahedron: the edge removes itself with its last tetrahedron
EdgeRemoveTetrahedron(W, e, t) ==
  LET left == W.etets[e] \ {t}
  IN  IF left = {} THEN EdgeRemove(W, e)
      ELSE [W EXCEPT !.etets[e] = left]

\* Edge::changeCrossSectionArea
changeCrossSectionArea(W, e, change) == [W EXCEPT !.area[e] = @ + change]

\* Tetrahedron::changeCrossSection: the edge is told the difference to the
\* value this tetrahedron had recorded for it
changeCrossSection(W, t, k, e, new_value) ==
  [changeCrossSectionArea(W, e, new_value - W.tareas[t][k]) EXCEPT !.tareas[t][k] = new_value]

\* the edge objects a tetrahedron holds for its edge number k
EdgesOf(W, t, k) ==
  {e \in DOMAIN W.etets :
     t \in W.etets[e] /\ {e[1], e[2]} = {EdgePair(t, k)[1], EdgePair(t, k)[2]}}

\* the share a tetrahedron has in the cross section of its edge number k:
\* nothing for a flat one, else the squared length of the opposite edge
CrossSectionShare(W, t, k) ==
  IF t \in W.flat THEN 0
  ELSE Dot(Sub(W.pos[EdgePair(t, 7 - k)[1]], W.pos[EdgePair(t, 7 - k)[2]]),
           Sub(W.pos[EdgePair(t, 7 - k)[1]], W.pos[EdgePair(t, 7 - k)[2]]))

\* Tetrahedron::updateCrossSectionAreas, edge numbers k..6
RECURSIVE updateCrossSectionAreas(_, _, _)
updateCrossSectionAreas(W, t, k) ==
  IF k > 6 THEN W
  ELSE LET F == EdgesOf(W, t, k)
       IN  IF F = {} THEN updateCrossSectionAreas(W, t, k + 1)
           ELSE updateCrossSectionAreas(
                  changeCrossSection(W, t, k, CHOOSE x \in F : TRUE, CrossSectionShare(W, t, k)),
                  t, k + 1)

\* Tetrahedron::registerEdges, edge numbers k..6 of a finite tetrahedron
RECURSIVE registerEdges(_, _, _)
registerEdges(W, t, k) ==
  IF k > 6 THEN W
  ELSE LET p == EdgePair(t, k)
           F == FoundEdges(W, p[1], p[2])
       IN  IF F = {}
           THEN registerEdges(EdgeAddTetrahedron(EdgeCreate(W, p[1], p[2]), p, t), t, k + 1)
           ELSE registerEdges(EdgeAddTetrahedron(W, CHOOSE x \in F : TRUE, t), t, k + 1)

\* Tetrahedron::remove leaving its contributions in the edges' cross sections
RECURSIVE unregisterEdgesKeepArea(_, _, _)
unregisterEdgesKeepArea(W, t, k) ==
  IF k > 6 THEN W
  ELSE LET F == EdgesOf(W, t, k)
       IN  IF F = {} THEN unregisterEdgesKeepArea(W, t, k + 1)
           ELSE unregisterEdgesKeepArea(EdgeRemoveTetrahedron(W, CHOOSE x \in F : TRUE, t),
                                        t, k + 1)

\* Tetrahedron::remove, edge numbers k..6: the edge loses this tetrahedron's
\* contribution to its cross section and then the tetrahedron itself
RECURSIVE unregisterEdges(_, _, _)
unregisterEdges(W, t, k) ==
  IF k > 6 THEN W
  ELSE LET F == EdgesOf(W, t, k)
       IN  IF F = {} THEN unregisterEdges(W, t, k + 1)
           ELSE unregisterEdges(
                  EdgeRemoveTetrahedron(
                    changeCrossSectionArea(W, CHOOSE x \in F : TRUE, 0 - W.tareas[t][k]),
                    CHOOSE x \in F : TRUE, t),
                  t, k + 1)

\* SpaceNode::addAdjacentTetrahedron for every non-null endpoint
RECURSIVE addToNodes(_, _, _)
addToNodes(ntets, t, i) ==
  IF i > 4 THEN ntets
  ELSE IF t[i] = NullNode THEN addToNodes(ntets, t, i + 1)
  ELSE addToNodes([ntets EXCEPT ![t[i]] = Append(@, t)], t, i + 1)

\* SpaceNode::removeTetrahedron for every non-null endpoint
RECURSIVE removeFromNodes(_, _, _)
removeFromNodes(ntets, t, i) ==
  IF i > 4 THEN ntets
  ELSE IF t[i] = NullNode THEN removeFromNodes(ntets, t, i + 1)
  ELSE removeFromNodes([ntets EXCEPT ![t[i]] = vectorRemove(@, t)], t, i + 1)

Logged(W, what, t) ==
  [W EXCEPT !.log = Append(@, [ev |-> what, node |-> NullNode, lis |-> 0, arg |-> t])]

\* A new tetrahedron joins the triangulation (both initializationHelpers).
TetCreate(W, t, flat) ==
  LET W1 == [W EXCEPT !.tets = @ \cup {t},
                      !.flat = IF flat THEN @ \cup {t} ELSE @ \ {t},
                      !.dead = @ \ {t},
                      !.ntets = addToNodes(@, t, 1),
                      !.tareas = [x \in DOMAIN @ \cup {t} |->
                                    IF x = t THEN <<0, 0, 0, 0, 0, 0>> ELSE @[x]],
                      !.made = Append(@, t)]
      W2 == IF isInfinite(t) THEN W1
            ELSE updateCrossSectionAreas(registerEdges(W1, t, 1), t, 1)
  IN  Logged(W2, "tetrahedronCreated", t)

\* Tetrahedron::remove: nodes, edges and triangles are told; valid_ is cleared
TetRemove(W, t) ==
  LET W1 == [W EXCEPT !.tets = @ \ {t},
                      !.dead = @ \cup {t},
                      !.stamp = [x \in {y \in DOMAIN @ : \E u \in W.tets \ {t} :
                                                 y \subseteq NodesOf(u)} |-> @[x]],
                      !.ntets = removeFromNodes(@, t, 1)]
      W2 == IF isInfinite(t) THEN W1 ELSE unregisterEdges(W1, t, 1)
  IN  Logged([W2 EXCEPT !.tareas = [x \in DOMAIN @ \ {t} |-> @[x]]], "tetrahedronRemoved", t)

isValid(W, t) == t \in W.tets

\* the four endpoints lie in one plane
Orient3Degenerate(W, t) ==
  ~isInfinite(t) /\ Orient3(W.pos[t[1]], W.pos[t[2]], W.pos[t[3]], W.pos[t[4]]) = 0

Less4(a, b) ==
  \E k \in 1..4 : a[k] < b[k] /\ \A m \in 1..(k - 1) : a[m] = b[m]

RECURSIVE SortedTets(_)
SortedTets(S) ==
  IF S = {} THEN <<>>
  ELSE LET m == CHOOSE x \in S : \A y \in S : x = y \/ Less4(x, y)
       IN  <<m>> \o SortedTets(S \ {m})

isFlat(W, t) == t \in W.flat

\* ------------------------------------------------- geometry of tetrahedra
P(W, n) == W.pos[n]

\* Triangle3D::orientation: +1 when both points lie strictly on the same side
\* of the triangle's plane, -1 on strictly opposite sides, 0 when either lies in it
PlaneOrientation(W, tri, p, q) ==
  LET Sides(a, b, c) == Sgn(Orient3(a, b, c, p)) * Sgn(Orient3(a, b, c, q))
      Of(s) == Sides(P(W, s[1]), P(W, s[2]), P(W, s[3]))
  IN  Of(SortedSeq(tri))

\* the side of the triangle's plane a point lies on
PlaneSide(W, tri, p) ==
  LET Of(s) == Sgn(Orient3(P(W, s[1]), P(W, s[2]), P(W, s[3]), p))
  IN  Of(SortedSeq(tri))

trulyOnSameSide(W, tri, p, q) == PlaneOrientation(W, tri, p, q) > 0

onOppositeSides(W, tri, p, q) == PlaneOrientation(W, tri, p, q) < 0

Cross(u, v) == <<u[2] * v[3] - u[3] * v[2], u[3] * v[1] - u[1] * v[3], u[1] * v[2] - u[2] * v[1]>>

\* Triangle3D::circleOrientation for a point in the triangle's plane:
\* +1 inside, 0 on, -1 outside the circumcircle
circleOrientation(W, tri, p) ==
  LET Lifted(a, n) == <<a[1] + n[1], a[2] + n[2], a[3] + n[3]>>
      Circle(a, b, c) == SphereSide(a, b, c, Lifted(a, Cross(Sub(b, a), Sub(c, a))), p)
      Of(s) == Circle(P(W, s[1]), P(W, s[2]), P(W, s[3]))
  IN  Of(SortedSeq(tri))

\* the finite tetrahedron on the inner side of a hull triangle: the valid
\* one, or the one this operation has just removed
InnerTets(W, tri) ==
  LET In(S) == {t \in S : ~isInfinite(t) /\ tri \subseteq NodesOf(t)}
      Or(V) == IF V # {} THEN V ELSE In(W.dead)
  IN  Or(In(W.tets))

\* Tetrahedron::orientation: -1 outside, 0 on, +1 inside the circumsphere.
\* For an infinite tetrahedron the sphere is the outer half space of its
\* hull triangle; for a flat one only in-plane points can be inside.
orientation(W, t, p) ==
  IF isInfinite(t) THEN
    LET HalfSpace(tri, o) == IF o = 0 THEN circleOrientation(W, tri, p) ELSE 0 - o
        Against(tri, I) ==
          HalfSpace(tri, IF I = {} THEN 0
                         ELSE PlaneOrientation(W, tri, p,
                                P(W, getOppositeNode(CHOOSE x \in I : TRUE, tri))))
        Across(tri) == Against(tri, InnerTets(W, tri))
    IN  Across(TriangleAt(t, 1))
  ELSE
    LET InPlane(C) == IF 1 \in C THEN 1 ELSE IF 0 \in C THEN 0 ELSE -1
    IN  IF Orient3Degenerate(W, t)
        THEN IF \E i \in 1..4 : PlaneSide(W, TriangleAt(t, i), p) # 0 THEN -1
             ELSE InPlane({circleOrientation(W, TriangleAt(t, i), p) : i \in 1..4})
        ELSE SphereSide(P(W, t[1]), P(W, t[2]), P(W, t[3]), P(W, t[4]), p)

isTrulyInsideSphere(W, t, p) == orientation(W, t, p) > 0

isInsideSphere(W, t, p) == orientation(W, t, p) >= 0

\* Tetrahedron::walkToPoint under every triangle order: the tetrahedra the
\* step may return -- a neighbour across a triangle that separates the
\* coordinate from the opposite node, or this tetrahedron if there is none
walkToPoint(W, t, p) ==
  LET Across(i) == getOppositeTetrahedron(W, TriangleAt(t, i), t)
      Step(S) == IF S = {} THEN {t} ELSE S
  IN  Step({u \in {Across(i) : i \in {k \in 1..4 :
                      onOppositeSides(W, TriangleAt(t, k), p, P(W, t[k]))}} : u # NoTet})

\* the tetrahedra the walk loop can be at, started at the tetrahedra in F
RECURSIVE WalkReach(_, _, _)
WalkReach(W, F, p) ==
  LET Further(N) == IF N = F THEN F ELSE WalkReach(W, N, p)
  IN  Further(F \cup UNION {walkToPoint(W, t, p) : t \in {x \in F : ~isInfinite(x)}})

\* SpaceNode::searchInitialInsertionTetrahedron: the tetrahedra the loop can
\* stop at -- an infinite one, or one that walkToPoint returns itself for
searchInitialInsertionTetrahedron(W, start, p) ==
  {t \in WalkReach(W, {IF isInfinite(start)
                        THEN getOppositeTetrahedron(W, TriangleAt(start, 1), start)
                        ELSE start}, p) :
     isInfinite(t) \/ t \in walkToPoint(W, t, p)}

\* Tetrahedron::getVerticeContents: the user objects of the four endpoints
getVerticeContents(t) == t

\* ------------------------------------------------------------------ state
VARIABLES
  position_,             \* SpaceNode::position_, by node id
  adjacent_tetrahedra_,  \* SpaceNode::adjacent_tetrahedra_, by node id
  adjacent_edges_,       \* SpaceNode::adjacent_edges_, by node id
  tetrahedra,            \* the valid tetrahedra
  edge_tetrahedra,       \* Edge::adjacent_tetrahedra_, by edge
  cross_section_area_,   \* Edge::cross_section_area_, by edge
  cross_section_areas_,  \* Tetrahedron::cross_section_areas_, by tetrahedron
  checking_index_,       \* SpaceNode::checking_index_
  triangle_checking_index_,  \* Triangle3D's checking index, by stamped triangle
  restoring,             \* the restoreDelaunay call under way, its locals included
  restore_steps,         \* the loop heads that call has passed
  walk,                  \* the searchInitialInsertionTetrahedron call under way
  walk_steps,            \* the times that call has come to the head of its loop
  answer,                \* the last Edge::getOpposite call of a client and its outcome
  rational,              \* two Rational objects, the last call on them and its result
  removed,               \* the nodes remove() has been called on
  log,                   \* what the last operation did, in order
  op,                    \* the last operation and its arguments
  before,                \* the triangulation when the last operation began
  history                \* the operations since the initial tetrahedron, by name

vars == <<position_, adjacent_tetrahedra_, adjacent_edges_, tetrahedra,
          edge_tetrahedra, cross_section_area_, cross_section_areas_,
          checking_index_, triangle_checking_index_, restoring, restore_steps,
          walk, walk_steps, answer, rational, removed, log, op, before,
          history>>

Nodes == 1..Len(position_)

\* no Rational has been made
NoRational == [a |-> 0, b |-> 0, call |-> "none", result |-> 0]

\* no client has called Edge::getOpposite
NoAnswer == [edge |-> <<>>, node |-> NullNode, thrown |-> "none", result |-> NullNode]

\* no searchInitialInsertionTetrahedron call is under way
NoWalk == [this |-> NullNode, pos |-> <<>>, current |-> NoTet, last |-> NoTet]

\* no restoreDelaunay call is under way
NoCall == [node |-> NullNode, w |-> <<>>]

ops == Len(history)

\* the session under way: the positions its first nodes are created at, and
\* how many nodes and calls it has
Session ==
  IF \E i \in 1..Len(Positions) : position_[1] = Positions[i]
  THEN [given |-> Positions, nodes |-> MaxNodes, ops |-> MaxOps]
  ELSE [given |-> CrowdedPositions, nodes |-> CrowdedNodes, ops |-> CrowdedOps]

\* the state an operation starts from
World ==
  [pos |-> position_, tets |-> tetrahedra, flat |-> {}, dead |-> {},
   ntets |-> adjacent_tetrahedra_, nedges |-> adjacent_edges_,
   etets |-> edge_tetrahedra, area |-> cross_section_area_,
   tareas |-> cross_section_areas_, oto |-> {}, queue |-> <<>>, outer |-> <<>>,
   made |-> <<>>, log |-> <<>>, cidx |-> checking_index_,
   active |-> <<>>, problem |-> <<>>, flatl |-> <<>>,
   stamp |-> triangle_checking_index_, fresh |-> <<>>]

Snapshot ==
  [pos |-> position_, tets |-> tetrahedra, ntets |-> adjacent_tetrahedra_,
   nedges |-> adjacent_edges_, etets |-> edge_tetrahedra, removed |-> removed,
   op |-> op, log |-> log, tets0 |-> before.tets, live0 |-> DOMAIN before.pos \ before.removed]

Commit(W) ==
  /\ position_' = W.pos
  /\ adjacent_tetrahedra_' = W.ntets
  /\ adjacent_edges_' = W.nedges
  /\ tetrahedra' = W.tets
  /\ edge_tetrahedra' = W.etets
  /\ cross_section_area_' = W.area
  /\ cross_section_areas_' = W.tareas
  /\ checking_index_' = W.cidx
  /\ triangle_checking_index_' = W.stamp
  /\ restoring' = NoCall
  /\ restore_steps' = 0
  /\ walk' = NoWalk
  /\ walk_steps' = 0
  /\ answer' = NoAnswer
  /\ rational' = rational
  /\ log' = W.log
  /\ before' = Snapshot

Live == Nodes \ removed

\* two nodes of the triangulation share a position
Duplicates == \E a, b \in Live : a # b /\ position_[a] = position_[b]

Seeded == tetrahedra # {}

\* the nodes new instances are requested from: the oldest ones still there
Requesters == {n \in Live : Cardinality({m \in Live : m < n}) < MaxRequesters}

Event(cb, n, l, arg) == [ev |-> cb, node |-> n, lis |-> l, arg |-> arg]

\* for (auto listener : listeners_) listener->cb(node, ...)
Notify(W, cb, n, arg) ==
  [W EXCEPT !.log = @ \o [l \in 1..NumListeners |-> Event(cb, n, l, arg)]]

\* the organizer of a call goes out of scope; what it still holds is noted
releaseOrganizer(W) ==
  [W EXCEPT !.log = Append(@, Event("organizerReleased", NullNode, 0, W.oto))]

\* OpenTriangleOrganizer::putTriangle / removeTriangle
putTriangle(W, tri) == [W EXCEPT !.oto = @ \cup {tri}]

removeTriangle(W, tri) == [W EXCEPT !.oto = @ \ {tri}]

\* OpenTriangleOrganizer::getTriangle for the side triangles of a new
\* tetrahedron: a registered triangle is paired and leaves the organizer,
\* an unknown one is created and registered as open
pairTriangles(W, t, base) ==
  LET S == {i \in 1..4 : TriangleAt(t, i) # base}
  IN  [W EXCEPT !.oto = (@ \ ({TriangleAt(t, i) : i \in S} \cup {base}))
                          \cup ({TriangleAt(t, i) : i \in S} \ @)]

\* Tetrahedron::create(triangle, fourth point, organizer)
TetrahedronCreate(W, tri, apex) ==
  LET t == MakeTet(tri, apex)
  IN  TetCreate(pairTriangles(W, t, tri), t, FALSE)

\* processTetrahedron never taking a triangle out of the organizer again
RECURSIVE processTrianglesKeepOpen(_, _, _)
processTrianglesKeepOpen(W, t, i) ==
  IF i > 4 THEN W
  ELSE IF isCompletelyOpen(W, TriangleAt(t, i))
       THEN processTrianglesKeepOpen(W, t, i + 1)
       ELSE processTrianglesKeepOpen(
              putTriangle([W EXCEPT !.queue = Append(@, TriangleAt(t, i))], TriangleAt(t, i)),
              t, i + 1)

\* SpaceNode::processTetrahedron
RECURSIVE processTriangles(_, _, _)
processTriangles(W, t, i) ==
  IF i > 4 THEN W
  ELSE LET tri == TriangleAt(t, i)
       IN  IF isCompletelyOpen(W, tri)
           THEN processTriangles(removeTriangle(W, tri), t, i + 1)
           ELSE processTriangles(
                  putTriangle([W EXCEPT !.queue = Append(@, tri)], tri), t, i + 1)

processTetrahedron(W, t) == processTriangles(TetRemove(W, t), t, 1)

\* insertQueue with the circumsphere test lost: no neighbour joins the cavity
insertQueueNoSphereTest(W, n, i) ==
  [W EXCEPT !.outer = SelectSeq(W.queue, LAMBDA tri : getOppositeTetrahedron(W, tri, NoTet) # NoTet)]

\* SpaceNode::insert, the loop over the growing queue
RECURSIVE insertQueue(_, _, _)
insertQueue(W, n, i) ==
  IF i > Len(W.queue) THEN W
  ELSE LET tri == W.queue[i]
           opp == getOppositeTetrahedron(W, tri, NoTet)
       IN  IF opp = NoTet THEN insertQueue(W, n, i + 1)
           ELSE IF isTrulyInsideSphere(W, opp, P(W, n))
           THEN insertQueue(processTetrahedron(W, opp), n, i + 1)
           ELSE insertQueue([W EXCEPT !.outer = Append(@, tri)], n, i + 1)

\* insertStar starting one triangle late: the first outer triangle stays open
RECURSIVE insertStarFromSecond(_, _, _)
insertStarFromSecond(W, n, i) ==
  IF i + 1 > Len(W.outer) THEN W
  ELSE IF isCompletelyOpen(W, W.outer[i + 1]) THEN insertStarFromSecond(W, n, i + 1)
  ELSE insertStarFromSecond(TetrahedronCreate(W, W.outer[i + 1], n), n, i + 1)

\* SpaceNode::insert, the star of new tetrahedra on the outer triangles
RECURSIVE insertStar(_, _, _)
insertStar(W, n, i) ==
  IF i > Len(W.outer) THEN W
  ELSE IF isCompletelyOpen(W, W.outer[i]) THEN insertStar(W, n, i + 1)
  ELSE insertStar(TetrahedronCreate(W, W.outer[i], n), n, i + 1)

\* insert telling the listeners of the new node only once the cavity is open
insertAnnouncedLate(W, n, insertion_start) ==
  releaseOrganizer(Notify(
    insertStar(
      insertQueue(
        Notify(processTetrahedron([W EXCEPT !.queue = <<>>, !.outer = <<>>, !.oto = {}],
                                  insertion_start),
               "nodeAboutToBeAdded", n, getVerticeContents(insertion_start)),
        n, 1),
      n, 1),
    "nodeAdded", n, <<>>))

\* OpenTriangleOrganizer::getANewTetrahedron
getANewTetrahedron(W) == IF W.made = <<>> THEN NoTet ELSE W.made[Len(W.made)]

\* SpaceNode::insert, return ret: the tetrahedron the star loop created last,
\* null if it created none
insertReturn(W) == Logged(W, "insertReturned", getANewTetrahedron(W))

\* insert returning the tetrahedron the walk ended in
insertReturnStart(W, n, insertion_start) ==
  releaseOrganizer(Logged(Notify(
    insertStar(
      insertQueue(
        processTetrahedron(
          [(IF NumListeners # 0
            THEN Notify(W, "nodeAboutToBeAdded", n, getVerticeContents(insertion_start))
            ELSE W) EXCEPT !.queue = <<>>, !.outer = <<>>, !.oto = {}, !.made = <<>>],
          insertion_start),
        n, 1),
      n, 1),
    "nodeAdded", n, <<>>), "insertReturned", insertion_start))

\* SpaceNode::insert once the walk has ended in insertion_start
insert(W, n, insertion_start) ==
  releaseOrganizer(insertReturn(Notify(
    insertStar(
      insertQueue(
        processTetrahedron(
          [(IF NumListeners # 0
            THEN Notify(W, "nodeAboutToBeAdded", n, getVerticeContents(insertion_start))
            ELSE W) EXCEPT !.queue = <<>>, !.outer = <<>>, !.oto = {}, !.made = <<>>],
          insertion_start),
        n, 1),
      n, 1),
    "nodeAdded", n, <<>>)))

\* Tetrahedron::createInitialTetrahedron: the finite tetrahedron a b c d and
\* the four infinite ones on its triangles
RECURSIVE initialInfinite(_, _, _)
initialInfinite(W, t, i) ==
  IF i > 4 THEN W
  ELSE initialInfinite(TetrahedronCreate(W, TriangleAt(t, i), NullNode), t, i + 1)

\* the initial tetrahedron without infinite tetrahedra on its triangles
createInitialTetrahedronAlone(W, a, b, c, d) ==
  TetCreate([W EXCEPT !.oto = {TriangleAt(<<a, b, c, d>>, i) : i \in 1..4}], <<a, b, c, d>>, FALSE)

createInitialTetrahedron(W, a, b, c, d) ==
  LET t == <<a, b, c, d>>
  IN  initialInfinite(TetCreate([W EXCEPT !.oto = {TriangleAt(t, i) : i \in 1..4}], t, FALSE), t, 1)

\* SpaceNode::create: the next id, no edges, no tetrahedra
NewNode(W, pos) ==
  [W EXCEPT !.pos = Append(@, pos), !.ntets = Append(@, <<>>), !.nedges = Append(@, <<>>)]

\* the edge objects no node refers to any more are gone
dropEdges(W, E) ==
  [W EXCEPT !.etets = [x \in DOMAIN W.etets \ E |-> W.etets[x]],
            !.area = [x \in DOMAIN W.area \ E |-> W.area[x]]]

\* SpaceNode::getNewInstance before the initial tetrahedron exists
seedInstance(W, this, ip) ==
  IF Len(W.nedges[this]) = 2
  THEN LET a  == getOpposite(W.nedges[this][1], this)
           b  == getOpposite(W.nedges[this][2], this)
           W1 == [W EXCEPT !.nedges[this] = <<>>, !.nedges[a] = <<>>, !.nedges[b] = <<>>]
       IN  createInitialTetrahedron(dropEdges(W1, DOMAIN W1.etets), this, ip, a, b)
  ELSE LET W1 == EdgeCreate(W, this, ip)
       IN  IF Len(W1.nedges[this]) = 2
           THEN EdgeCreate(W1, getOpposite(W1.nedges[this][2], this), ip)
           ELSE W1

\* ---------------------------------------------------------------- removal
\* the non-null nodes of the open triangles
CavityNodes(W) == (UNION W.oto) \ {NullNode}

\* the nodes that are endpoints of some valid tetrahedron or open triangle
WorldNodes(W) == ((UNION {NodesOf(t) : t \in W.tets}) \cup (UNION W.oto)) \ {NullNode}

\* the open side of an open finite triangle: the side its one tetrahedron is
\* not on (for a hull triangle, the side the other nodes are on)
onOpenSide(W, tri, n) ==
  LET u == getOppositeTetrahedron(W, tri, NoTet)
  IN  IF u # NoTet /\ ~isInfinite(u)
      THEN onOppositeSides(W, tri, P(W, n), P(W, getOppositeNode(u, tri)))
      ELSE \E m \in WorldNodes(W) \ tri : trulyOnSameSide(W, tri, P(W, n), P(W, m))

\* the fourth points the organizer may give an open finite triangle: on the
\* open side, with no other cavity node truly inside the new circumsphere
Apexes(W, tri) ==
  {n \in CavityNodes(W) \ tri :
     /\ onOpenSide(W, tri, n)
     /\ LET s == SortedSeq(tri)
        IN  \A m \in CavityNodes(W) \ (tri \cup {n}) :
              SphereSide(P(W, s[1]), P(W, s[2]), P(W, s[3]), P(W, n), P(W, m)) <= 0}

\* the third points the organizer may give an open triangle a b at infinity:
\* the triangle a b c lies on the hull and is not yet the other side
HullApexes(W, tri) ==
  LET ab == tri \ {NullNode}
  IN  {c \in CavityNodes(W) \ ab :
         /\ MakeTet(ab \cup {c}, NullNode) \notin W.tets
         /\ \A m1, m2 \in WorldNodes(W) \ (ab \cup {c}) :
              PlaneSide(W, ab \cup {c}, P(W, m1)) * PlaneSide(W, ab \cup {c}, P(W, m2)) >= 0}

\* OpenTriangleOrganizer::triangulate: while a triangle is open, give it a
\* fourth point and create the tetrahedron; a finite triangle with no point
\* on its open side gets the point at infinity
RECURSIVE triangulate(_, _)
triangulate(W, fuel) ==
  IF W.oto = {} \/ fuel = 0 THEN W
  ELSE LET F   == {x \in W.oto : NullNode \notin x}
           tri == IF F # {} THEN CHOOSE x \in F : \A y \in F : SortedSeq(x) = SortedSeq(y) \/ Less3(SortedSeq(x), SortedSeq(y))
                  ELSE CHOOSE x \in W.oto : \A y \in W.oto : SortedSeq(x) = SortedSeq(y) \/ Less3(SortedSeq(x), SortedSeq(y))
           A   == IF NullNode \in tri THEN HullApexes(W, tri) ELSE Apexes(W, tri)
       IN  IF A = {}
           THEN IF NullNode \in tri THEN removeTriangle(W, tri)
                ELSE triangulate(TetrahedronCreate(W, tri, NullNode), fuel - 1)
           ELSE triangulate(TetrahedronCreate(W, tri, Min(A)), fuel - 1)

\* OpenTriangleOrganizer::removeAllTetrahedraInSphere: the tetrahedron goes,
\* its triangles open or close, and so on for every neighbour whose
\* circumsphere holds the point as well
RECURSIVE removeAllTetrahedraInSphere(_, _, _)
RECURSIVE removeAllOf(_, _, _)
removeAllOf(W, ts, p) ==
  IF ts = <<>> THEN W
  ELSE removeAllOf(removeAllTetrahedraInSphere(W, Head(ts), p), Tail(ts), p)

removeAllTetrahedraInSphere(W, t, p) ==
  IF ~isValid(W, t) THEN W
  ELSE LET nb == [i \in 1..4 |-> getOppositeTetrahedron(W, TriangleAt(t, i), t)]
           W1 == [processTriangles(TetRemove(W, t), t, 1) EXCEPT !.queue = W.queue]
           go == SelectSeq(nb, LAMBDA u : u # NoTet /\ ~isInfinite(u)
                                          /\ isInsideSphere(W, u, p))
       IN  removeAllOf(W1, go, p)

\* removeIncident without oto->putTriangle: the opened triangles are forgotten
RECURSIVE removeIncidentNoPut(_, _, _, _)
removeIncidentNoPut(W, n, cpy, messed) ==
  IF cpy = <<>> THEN [w |-> W, messed |-> messed]
  ELSE IF ~isValid(W, Head(cpy)) THEN removeIncidentNoPut(W, n, Tail(cpy), messed)
  ELSE removeIncidentNoPut(TetRemove(W, Head(cpy)), n, Tail(cpy), messed)

\* SpaceNode::removeAndReturnCreatedTetrahedron, the loop over the copy of
\* adjacent_tetrahedra_
RECURSIVE removeIncident(_, _, _, _)
removeIncident(W, n, cpy, messed) ==
  IF cpy = <<>> THEN [w |-> W, messed |-> messed]
  ELSE LET t == Head(cpy)
       IN  IF ~isValid(W, t) THEN removeIncident(W, n, Tail(cpy), messed)
           ELSE LET tri == NodesOf(t) \ {n}
                    opp == getOppositeTetrahedron(W, tri, t)
                    W1  == TetRemove(putTriangle(W, tri), t)
                    bad == opp # NoTet /\ ~isInfinite(opp)
                           /\ isInsideSphere(W1, opp, P(W, n))
                IN  removeIncident(W1, n, Tail(cpy),
                                   IF bad THEN Append(messed, opp) ELSE messed)

MaxFuel == 40

\* removeAndReturnCreatedTetrahedron, the loop over messed_up_tetrahedra
removeMessedUp(R, p) == removeAllOf(R.w, R.messed, p)

\* removeAndReturnCreatedTetrahedron telling nodeRemoved before it triangulates
removeAnnouncedEarly(W, n) ==
  releaseOrganizer(triangulate(
    Notify(
      removeMessedUp(
        removeIncident([Notify(W, "nodeAboutToBeRemoved", n, <<>>)
                          EXCEPT !.oto = {}, !.made = <<>>], n, W.ntets[n], <<>>),
        P(W, n)),
      "nodeRemoved", n, <<>>),
    MaxFuel))

\* SpaceNode::removeAndReturnCreatedTetrahedron
removeAndReturnCreatedTetrahedron(W, n) ==
  releaseOrganizer(Notify(
    triangulate(
      removeMessedUp(
        removeIncident([Notify(W, "nodeAboutToBeRemoved", n, <<>>)
                          EXCEPT !.oto = {}, !.made = <<>>], n, W.ntets[n], <<>>),
        P(W, n)),
      MaxFuel),
    "nodeRemoved", n, <<>>))

\* SpaceNode::getNewInstance(position, user_object) called on node this
getNewInstance(this, pos) ==
  /\ Len(position_) < Session.nodes
  /\ ~Duplicates
  /\ LET ip == Len(position_) + 1
         W  == NewNode(World, pos)
     IN  IF adjacent_tetrahedra_[this] = <<>>
         THEN /\ ~Seeded
              /\ this = 1
              /\ pos = Session.given[ip]
              /\ Commit(seedInstance(W, this, ip))
              /\ op' = [name |-> "getNewInstance", node |-> ip, this |-> this,
                        pos |-> pos, start |-> NoTet, path |-> "seed", thrown |-> "none"]
              /\ history' = history
         ELSE /\ ops < Session.ops
              /\ \E s \in searchInitialInsertionTetrahedron(W, adjacent_tetrahedra_[this][1], pos) :
                   /\ Commit(insert(W, ip, s))
                   /\ op' = [name |-> "getNewInstance", node |-> ip, this |-> this,
                             pos |-> pos, start |-> s, path |-> "insert", thrown |-> "none"]
              /\ history' = Append(history, "insert")
  /\ removed' = removed

\* ----------------------------------------------------------------- motion
\* Tetrahedron::isInConvexPosition of a point facing triangle i of t: +1 when
\* the line from the opposite endpoint to the point cuts the inside of the
\* triangle, 0 on the border, -1 otherwise
isInConvexPosition(W, t, p, i) ==
  LET Position(O) == IF -1 \in O THEN -1 ELSE IF 0 \in O THEN 0 ELSE 1
  IN  Position({IF k = i \/ NullNode \in TriangleAt(t, k) THEN 1
                ELSE PlaneOrientation(W, TriangleAt(t, k), p, P(W, t[k])) : k \in 1..4})

SlotOf(t, tri) == CHOOSE i \in 1..4 : TriangleAt(t, i) = tri

RECURSIVE createAll(_, _)
createAll(W, ts) ==
  IF ts = <<>> THEN W
  ELSE IF Orient3Degenerate(W, Head(ts))
       THEN createAll(TetCreate(W, Head(ts), TRUE), Tail(ts))
       ELSE createAll(TetCreate(W, Head(ts), FALSE), Tail(ts))

\* Tetrahedron::flip2to3: two tetrahedra on a common triangle a b c with
\* opposite endpoints p and q become three around the new edge p q; nothing
\* happens (an empty result) unless q lies in convex position
flip2to3(W, ta, tb) ==
  LET Flipped(new) == [createAll(TetRemove(TetRemove(W, ta), tb), new) EXCEPT !.fresh = new]
      Around(p, q, s) ==
        Flipped(<< MakeTet({q, s[1], s[2]}, p), MakeTet({q, s[2], s[3]}, p),
                   MakeTet({q, s[1], s[3]}, p) >>)
      Facing(q, tri) ==
        IF isInConvexPosition(W, ta, P(W, q), SlotOf(ta, tri)) < 0
        THEN [W EXCEPT !.fresh = <<>>]
        ELSE Around(getOppositeNode(ta, tri), q, SortedSeq(tri))
      On(tri) == Facing(getOppositeNode(tb, tri), tri)
  IN  On(NodesOf(ta) \cap NodesOf(tb))

\* Tetrahedron::flip3to2: three tetrahedra around a common edge become two
\* on the triangle of the three endpoints off that edge
flip3to2(W, ta, tb, tc) ==
  LET Flipped(new) ==
        [createAll(TetRemove(TetRemove(TetRemove(W, ta), tb), tc), new) EXCEPT !.fresh = new]
      Onto(tri, s) == Flipped(<< MakeTet(tri, s[1]), MakeTet(tri, s[2]) >>)
      Around(e) == Onto((NodesOf(ta) \cup NodesOf(tb) \cup NodesOf(tc)) \ e, SortedSeq(e))
  IN  Around(NodesOf(ta) \cap NodesOf(tb) \cap NodesOf(tc))

\* Tetrahedron::remove2FlatTetrahedra: both flat tetrahedra go and their
\* neighbours, now adjacent to each other, are handed back
remove2FlatTetrahedra(W, ta, tb) ==
  LET nb == {u \in W.tets \ {ta, tb} : isNeighbor(W, ta, u) \/ isNeighbor(W, tb, u)}
  IN  [TetRemove(TetRemove(W, ta), tb) EXCEPT !.fresh = SortedTets(nb)]

\* restoreDelaunay, the search of the loop over j for a 3->2 flip: the first
\* j whose neighbour is a neighbour of tetrahedron_i with both spheres violated
Flip3Slots(W, t, i, ti) ==
  LET Violated(u, k) == isTrulyInsideSphere(W, u, P(W, t[k]))
      Third(j, tj) ==
        /\ tj # NoTet
        /\ isNeighbor(W, tj, ti)
        /\ t[i] # NullNode /\ t[j] # NullNode
        /\ \/ isFlat(W, t) /\ isFlat(W, ti) /\ isFlat(W, tj) /\ ti # tj
           \/ \A x \in {<<tj, j>>, <<ti, i>>} : Violated(x[1], x[2])
  IN  {j \in (IF isInfinite(t) THEN 2..4 ELSE 1..4) \ {i} :
         Third(j, getOppositeTetrahedron(W, TriangleAt(t, j), t))}

\* restoreDelaunay calls a flip: the tetrahedra handed over and whether each
\* is valid at the call
flipCall(W, what, ts) ==
  Logged(W, what, [with |-> ts, valid |-> [k \in DOMAIN ts |-> isValid(W, ts[k])]])

\* restoreDelaunay, what is done about a violation across triangle i
flipAt(W, t, ti, node_i, j) ==
  IF j <= 4
  THEN flip3to2(flipCall(W, "flip3to2",
                         <<t, ti, getOppositeTetrahedron(W, TriangleAt(t, j), t)>>),
                t, ti, getOppositeTetrahedron(W, TriangleAt(t, j), t))
  ELSE IF isFlat(W, t) /\ isFlat(W, ti) /\ isAdjacentTo(t, node_i)
  THEN remove2FlatTetrahedra(flipCall(W, "remove2FlatTetrahedra", <<t, ti>>), t, ti)
  ELSE IF ~(isFlat(W, t) \/ isFlat(W, ti))
  THEN flip2to3(flipCall(W, "flip2to3", <<t, ti>>), t, ti)
  ELSE [W EXCEPT !.fresh = <<>>]

\* restoreDelaunay, one violation: the 3->2 flip at the first j found, else
\* the other repairs
tryFlips(W, t, i, ti, node_i) == flipAt(W, t, ti, node_i, Min(Flip3Slots(W, t, i, ti) \cup {5}))

\* Triangle3D::wasCheckedAlready: the triangle carries the index handed in;
\* if it does not, it is stamped with it
wasCheckedAlready(W, tri) == tri \in DOMAIN W.stamp /\ W.stamp[tri] = W.cidx

stampTriangle(W, tri) ==
  [W EXCEPT !.stamp = [x \in DOMAIN @ \cup {tri} |-> IF x = tri THEN W.cidx ELSE @[x]]]

\* restoreDelaunay, the loop over the triangles i of one active tetrahedron
RECURSIVE checkTriangles(_, _, _)
\* restoreDelaunay, after the repairs of one violation: new tetrahedra become
\* active and end the loop over i, or the pair is noted as a problem
afterFlips(W2, t, i, ti) ==
  IF W2.fresh # <<>>
  THEN [W2 EXCEPT !.active = @ \o W2.fresh,
                  !.flatl = @ \o SelectSeq(W2.fresh, LAMBDA x : isFlat(W2, x))]
  ELSE checkTriangles([W2 EXCEPT !.problem = @ \o <<t, ti>>, !.active = Append(@, ti)],
                      t, i + 1)

checkTriangles(W, t, i) ==
  IF i > 4 THEN W
  ELSE LET tri    == TriangleAt(t, i)
           W1     == stampTriangle(W, tri)
           ti     == getOppositeTetrahedron(W, tri, t)
           node_i == IF ti = NoTet THEN NullNode ELSE getOppositeNode(ti, tri)
       IN  IF wasCheckedAlready(W, tri) THEN checkTriangles(W, t, i + 1)
           ELSE IF node_i # NullNode
                   /\ (isTrulyInsideSphere(W, t, P(W, node_i))
                       \/ (isFlat(W, t) /\ isFlat(W, ti)))
           THEN afterFlips(tryFlips(W1, t, i, ti, node_i), t, i, ti)
           ELSE checkTriangles(W1, t, i + 1)

\* the body of the inner loop leaving the tetrahedron it took in the list
checkFirstActiveKept(W) ==
  IF isValid(W, Head(W.active))
  THEN checkTriangles(W, Head(W.active), IF isInfinite(Head(W.active)) THEN 2 ELSE 1)
  ELSE W

\* the body of the inner loop without the test that the tetrahedron is valid
checkFirstActiveUnchecked(W) ==
  checkTriangles([W EXCEPT !.active = vectorRemove(@, Head(W.active))], Head(W.active),
                 IF isInfinite(Head(W.active)) THEN 2 ELSE 1)

\* restoreDelaunay, the body of the inner loop: the first active tetrahedron
\* is taken from the list and, if still valid, its triangles are checked
checkFirstActive(W) ==
  LET t  == Head(W.active)
      W1 == [W EXCEPT !.active = vectorRemove(@, t)]
  IN  IF isValid(W1, t)
      THEN checkTriangles(W1, t, IF isInfinite(t) THEN 2 ELSE 1)
      ELSE W1

\* restoreDelaunay, the inner loop: while (!active_tetrahedra.empty())
RECURSIVE checkActive(_, _)
checkActive(W, fuel) ==
  IF W.active = <<>> \/ fuel = 0 THEN W
  ELSE checkActive(checkFirstActive(W), fuel - 1)

\* restoreDelaunay, the flat tetrahedra that are left and their neighbours
RECURSIVE flatNeighbours(_, _, _, _)
flatNeighbours(W, t, i, messed) ==
  IF i > 4 THEN messed
  ELSE LET With(opp) ==
             IF opp # NoTet /\ isValid(W, opp) /\ ~Contains(messed, opp)
             THEN Append(messed, opp) ELSE messed
       IN  flatNeighbours(W, t, i + 1, With(getOppositeTetrahedron(W, TriangleAt(t, i), t)))

RECURSIVE flatLeft(_, _, _)
flatLeft(W, fl, messed) ==
  IF fl = <<>> THEN messed
  ELSE LET t == Head(fl)
       IN  IF isValid(W, t) /\ ~Contains(messed, t)
           THEN flatLeft(W, Tail(fl), Append(flatNeighbours(W, t, 1, messed), t))
           ELSE flatLeft(W, Tail(fl), messed)

\* restoreDelaunay, the filter for problem tetrahedra that are still valid
\* and still violate the criterion against a finite neighbour
stillMessedUp(W, t) ==
  LET Violates(tri, opp) ==
        /\ opp # NoTet
        /\ ~isInfinite(opp)
        /\ isTrulyInsideSphere(W, t, P(W, getOppositeNode(opp, tri)))
      Across(tri) == Violates(tri, getOppositeTetrahedron(W, tri, t))
  IN  \E i \in 1..4 : Across(TriangleAt(t, i))

RECURSIVE problemLeft(_, _, _)
problemLeft(W, pl, messed) ==
  IF pl = <<>> THEN messed
  ELSE LET t == Head(pl)
       IN  IF isValid(W, t) /\ ~isFlat(W, t) /\ ~Contains(messed, t) /\ stillMessedUp(W, t)
           THEN problemLeft(W, Tail(pl), Append(messed, t))
           ELSE problemLeft(W, Tail(pl), messed)

\* SpaceNode::removeTetrahedronDuringCleanUp; W.queue is the list of outer
\* tetrahedra and W.outer the list of problem nodes
RECURSIVE collectNodes(_, _, _)
collectNodes(nl, t, i) ==
  IF i > 4 THEN nl
  ELSE collectNodes(IF t[i] # NullNode /\ ~Contains(nl, t[i]) THEN Append(nl, t[i]) ELSE nl,
                    t, i + 1)

RECURSIVE collectOpposite(_, _, _, _)
collectOpposite(W, l, t, i) ==
  IF i > 4 THEN l
  ELSE LET With(opp) == IF opp # NoTet /\ ~Contains(l, opp) THEN Append(l, opp) ELSE l
       IN  collectOpposite(W, With(getOppositeTetrahedron(W, TriangleAt(t, i), t)), t, i + 1)

RECURSIVE openOrClose(_, _, _)
openOrClose(W, t, i) ==
  IF i > 4 THEN W
  ELSE LET At(tri) == IF isCompletelyOpen(W, tri) THEN removeTriangle(W, tri)
                       ELSE putTriangle(W, tri)
       IN  openOrClose(At(TriangleAt(t, i)), t, i + 1)

removeTetrahedronDuringCleanUp(W, t) ==
  openOrClose(TetRemove([W EXCEPT !.outer = collectNodes(@, t, 1),
                                  !.queue = collectOpposite(W, @, t, 1)], t), t, 1)

\* cleanUp, the messed up tetrahedra are removed first
RECURSIVE cleanMessed(_, _)
cleanMessed(W, ml) ==
  IF ml = <<>> THEN W
  ELSE IF isValid(W, Head(ml))
       THEN cleanMessed([removeTetrahedronDuringCleanUp(W, Head(ml))
                           EXCEPT !.queue = vectorRemove(@, Head(ml))], Tail(ml))
       ELSE cleanMessed(W, Tail(ml))

\* cleanUp, an outer tetrahedron that is flat or holds a problem node in its sphere
isProblemOuter(W, u) ==
  /\ isValid(W, u)
  /\ \E k \in 1..Len(W.outer) :
       /\ ~isAdjacentTo(u, W.outer[k])
       /\ (isFlat(W, u) \/ isInsideSphere(W, u, P(W, W.outer[k])))

\* cleanUp with a loop that sets done at once
cleanOuterDone(W, fuel) ==
  Logged(W, "done", {W.queue[k] : k \in {j \in 1..Len(W.queue) : isProblemOuter(W, W.queue[j])}})

\* cleanUp, while (!done): an iteration takes the first outer tetrahedron that
\* is a problem out of the triangulation and the list, or sets done
RECURSIVE cleanOuter(_, _)
cleanOuter(W, fuel) ==
  LET Without(u) ==
        cleanOuter([removeTetrahedronDuringCleanUp(Logged(W, "outer", u), u)
                      EXCEPT !.queue = vectorRemove(@, u)],
                   fuel - 1)
      Among(I) == IF I = {} \/ fuel = 0
                  THEN Logged(W, "done", {W.queue[k] : k \in I})
                  ELSE Without(W.queue[Min(I)])
  IN  Among({k \in 1..Len(W.queue) : isProblemOuter(W, W.queue[k])})

\* SpaceNode::cleanUp
cleanUp(W, messed) ==
  releaseOrganizer(triangulate(
    cleanOuter(cleanMessed(Logged([W EXCEPT !.queue = <<>>, !.outer = <<>>, !.oto = {}],
                                  "cleanUp", [messed |-> messed, valid |-> W.tets]),
                           messed),
               MaxFuel),
    MaxFuel))

\* SpaceNode::createNewCheckingIndex: % 2000000000
CheckingIndexModulus == 2000000000

\* createNewCheckingIndex without the wrap
createNewCheckingIndexUnbounded(W) ==
  [W EXCEPT !.cidx = @ + 1,
            !.log = Append(@, Event("createNewCheckingIndex", NullNode, 0, W.cidx + 1))]

\* SpaceNode::createNewCheckingIndex
createNewCheckingIndex(W) ==
  [W EXCEPT !.cidx = (@ + 1) % CheckingIndexModulus,
            !.log = Append(@, Event("createNewCheckingIndex", NullNode, 0,
                                    (W.cidx + 1) % CheckingIndexModulus))]

\* restoreDelaunay, the outer loop: while (!active_tetrahedra.empty())
\* restoreDelaunay: if (!messed_up_tetrahedra.empty()) cleanUp(messed_up_tetrahedra)
cleanUpIfMessedUp(W, messed) == IF messed # <<>> THEN cleanUp(W, messed) ELSE W

\* restoreDelaunay, the end of one pass: what is still flat or still a problem
\* is messed up
afterPass(W) ==
  cleanUpIfMessedUp(W, problemLeft(W, W.problem, flatLeft(W, W.flatl, <<>>)))

\* restoreDelaunay, the head of the outer loop: a new index, empty lists
beginPass(W) == [createNewCheckingIndex(W) EXCEPT !.problem = <<>>, !.flatl = <<>>]

RECURSIVE restorePasses(_, _)
restorePasses(W, fuel) ==
  IF W.active = <<>> \/ fuel = 0 THEN W
  ELSE restorePasses(afterPass(checkActive(beginPass(W), MaxFuel)), fuel - 1)

\* restoreDelaunay, the loop that tells the incident tetrahedra of the move:
\* Tetrahedron::updateCirumSphereAfterNodeMovement computes the tetrahedron's
\* measures again, FlatTetrahedron's does no such work
RECURSIVE updateAdjacent(_, _, _)
updateAdjacent(W, n, k) ==
  IF k > Len(W.ntets[n]) THEN W
  ELSE IF isInfinite(W.ntets[n][k]) \/ isFlat(W, W.ntets[n][k])
       THEN updateAdjacent(W, n, k + 1)
       ELSE updateAdjacent(updateCrossSectionAreas(W, W.ntets[n][k], 1), n, k + 1)

\* restoreDelaunay up to the loops: the incident tetrahedra are told of the
\* move and become the active ones
activateAdjacent(W, n) == [updateAdjacent(W, n, 1) EXCEPT !.active = W.ntets[n]]

\* SpaceNode::restoreDelaunay
restoreDelaunay(W, n) == restorePasses(activateAdjacent(W, n), MaxFuel)

\* SpaceNode::checkIfTriangulationIsStillValid, from the k-th incident
\* tetrahedron on
RECURSIVE checkIfTriangulationIsStillValid(_, _, _, _)
checkIfTriangulationIsStillValid(W, n, new_position, k) ==
  IF k > Len(W.ntets[n]) THEN TRUE
  ELSE LET Hull(inner_tet) ==
             \A i \in 1..4 :
               isInfinite(getOppositeTetrahedron(W, TriangleAt(inner_tet, i), inner_tet))
           At(t) ==
             IF isFlat(W, t) THEN FALSE
             ELSE IF isInfinite(t)
             THEN Hull(getOppositeTetrahedron(W, TriangleAt(t, 1), t))
             ELSE IF ~trulyOnSameSide(W, NodesOf(t) \ {n}, P(W, n), new_position)
             THEN FALSE
             ELSE checkIfTriangulationIsStillValid(W, n, new_position, k + 1)
       IN  At(W.ntets[n][k])

setPosition(W, n, new_position) ==
  Logged([W EXCEPT !.pos[n] = new_position], "positionChanged", <<>>)

\* SpaceNode::moveTo, the branch that keeps the node in the triangulation
moveFast(W, n, new_position) ==
  Notify(restoreDelaunay(
           setPosition(Notify(W, "nodeAboutToMove", n, Sub(new_position, P(W, n))),
                       n, new_position), n),
         "nodeMoved", n, <<>>)

\* SpaceNode::moveTo, the other branch once the position is set: the node is
\* inserted again, from insert_position
moveInsert(W, n, new_position, insert_position) ==
  \E s \in searchInitialInsertionTetrahedron(W, insert_position, new_position) :
    /\ Commit(insert(W, n, s))
    /\ op' = [name |-> "moveTo", node |-> n, this |-> n,
              pos |-> new_position, start |-> s, path |-> "slow", thrown |-> "none",
              given |-> insert_position, valid |-> isValid(W, insert_position)]

\* moveTo handing the tetrahedron of the walk to insert whatever became of it
moveRemovedUnchecked(W, n, new_position, ip) ==
  moveInsert(setPosition([W EXCEPT !.dead = {}], n, new_position), n, new_position, ip)

\* SpaceNode::moveTo, the other branch once the node is removed
moveRemoved(W, n, new_position, ip) ==
  moveInsert(setPosition([W EXCEPT !.dead = {}], n, new_position), n, new_position,
             IF isValid(W, ip) THEN ip ELSE getANewTetrahedron(W))

\* SpaceNode::moveTo
moveTo(n, new_position) ==
  /\ Seeded
  /\ ops < Session.ops
  /\ ~Duplicates
  /\ IF checkIfTriangulationIsStillValid(World, n, new_position, 1)
     THEN /\ Commit(moveFast(World, n, new_position))
          /\ op' = [name |-> "moveTo", node |-> n, this |-> n, pos |-> new_position,
                    start |-> NoTet, path |-> "fast", thrown |-> "none"]
     ELSE /\ Cardinality(Live) >= 5
          /\ \E ip \in searchInitialInsertionTetrahedron(World, adjacent_tetrahedra_[n][1],
                                                         new_position) :
               moveRemoved(removeAndReturnCreatedTetrahedron(World, n), n, new_position, ip)
  /\ removed' = removed
  /\ history' = Append(history, "moveTo")

\* the loop of searchInitialInsertionTetrahedron without the test for a
\* step that returned the tetrahedron it was made from
walkIsOverAtInfinite(current, last) == isInfinite(current)

\* searchInitialInsertionTetrahedron, the loop has ended:
\* !(current != last && !current->isInfinite())
walkIsOver(current, last) == current = last \/ isInfinite(current)

\* getNewInstance on a node with tetrahedra, up to the loop of
\* searchInitialInsertionTetrahedron: an infinite start is left for its
\* finite neighbour, last is null
walkBegin(this, pos) ==
  /\ walk.this = NullNode
  /\ Seeded
  /\ Len(position_) < Session.nodes
  /\ ~Duplicates
  /\ ops < Session.ops
  /\ walk' = [this |-> this, pos |-> pos, last |-> NoTet,
              current |-> IF isInfinite(adjacent_tetrahedra_[this][1])
                          THEN getOppositeTetrahedron(
                                 World, TriangleAt(adjacent_tetrahedra_[this][1], 1),
                                 adjacent_tetrahedra_[this][1])
                          ELSE adjacent_tetrahedra_[this][1]]
  /\ walk_steps' = 1
  /\ UNCHANGED <<position_, adjacent_tetrahedra_, adjacent_edges_, tetrahedra,
                 edge_tetrahedra, cross_section_area_, cross_section_areas_,
                 checking_index_, triangle_checking_index_, restoring, restore_steps,
                 answer, rational, removed, log, op, before, history>>

\* what the walk is after one more iteration of the loop, for every
\* triangle order generateTriangleOrder may return
walkSteps ==
  {[walk EXCEPT !.current = u, !.last = walk.current] :
     u \in walkToPoint(World, walk.current, walk.pos)}

\* searchInitialInsertionTetrahedron, one iteration of the loop
walkStep ==
  /\ walk.this # NullNode
  /\ ~walkIsOver(walk.current, walk.last)
  /\ walk_steps <= MaxFuel
  /\ walk' \in walkSteps
  /\ walk_steps' = walk_steps + 1
  /\ UNCHANGED <<position_, adjacent_tetrahedra_, adjacent_edges_, tetrahedra,
                 edge_tetrahedra, cross_section_area_, cross_section_areas_,
                 checking_index_, triangle_checking_index_, restoring, restore_steps,
                 answer, rational, removed, log, op, before, history>>

\* searchInitialInsertionTetrahedron returns current and insert goes on
\* from it
walkEnd ==
  /\ walk.this # NullNode
  /\ walkIsOver(walk.current, walk.last)
  /\ Commit(insert(NewNode(World, walk.pos), Len(position_) + 1, walk.current))
  /\ op' = [name |-> "getNewInstance", node |-> Len(position_) + 1, this |-> walk.this,
            pos |-> walk.pos, start |-> walk.current, path |-> "insert",
            thrown |-> "none"]
  /\ history' = Append(history, "insert")
  /\ removed' = removed

\* Edge::getOpposite for any node: the other endpoint for an endpoint. For
\* another node no branch returns and control runs off the end of the
\* function, the throw being commented out: the caller gets whatever the
\* build leaves in the result, any node or null, or the process dies
getOppositeOutcomes(e, n) ==
  IF n = e[1] THEN {[thrown |-> "none", result |-> e[2]]}
  ELSE IF n = e[2] THEN {[thrown |-> "none", result |-> e[1]]}
  ELSE {[thrown |-> "none", result |-> m] : m \in Nodes \cup {NullNode}}
         \cup {[thrown |-> "crash", result |-> NullNode]}

\* a client calls Edge::getOpposite(node) on an edge of the triangulation;
\* one call is kept between two operations
callGetOpposite(e, n) ==
  /\ answer = NoAnswer
  /\ \E o \in getOppositeOutcomes(e, n) :
       answer' = [edge |-> e, node |-> n, thrown |-> o.thrown, result |-> o.result]
  /\ UNCHANGED <<position_, adjacent_tetrahedra_, adjacent_edges_, tetrahedra,
                 edge_tetrahedra, cross_section_area_, cross_section_areas_,
                 checking_index_, triangle_checking_index_, restoring, restore_steps,
                 walk, walk_steps, rational, removed, log, op, before, history>>

\* SpaceNode::moveTo when the node has to leave the triangulation
moveToByReinsertion(n, new_position) ==
  /\ restoring.node = NullNode
  /\ Seeded
  /\ ~checkIfTriangulationIsStillValid(World, n, new_position, 1)
  /\ moveTo(n, new_position)

\* SpaceNode::moveTo on the branch that keeps the node, up to the first pass
\* of restoreDelaunay: the listeners are told, the position is set, the
\* incident tetrahedra are active
moveToBegin(n, new_position) ==
  /\ restoring.node = NullNode
  /\ Seeded
  /\ ops < Session.ops
  /\ ~Duplicates
  /\ checkIfTriangulationIsStillValid(World, n, new_position, 1)
  /\ restoring' =
       [node |-> n,
        w |-> activateAdjacent(
                setPosition(Notify(World, "nodeAboutToMove", n,
                                   Sub(new_position, P(World, n))), n, new_position), n)]
  /\ restore_steps' = 0
  /\ op' = [name |-> "moveTo", node |-> n, this |-> n, pos |-> new_position,
            start |-> NoTet, path |-> "fast", thrown |-> "none"]
  /\ UNCHANGED <<position_, adjacent_tetrahedra_, adjacent_edges_, tetrahedra,
                 edge_tetrahedra, cross_section_area_, cross_section_areas_,
                 checking_index_, triangle_checking_index_, walk, walk_steps, answer,
                 rational,                 removed, log, before,
                 history>>

\* restoreDelaunay, the outer loop is entered: while (!active.empty())
restoreBeginPass ==
  /\ restoring.node # NullNode
  /\ restore_steps = 0
  /\ restoring.w.active # <<>>
  /\ restoring' = [restoring EXCEPT !.w = beginPass(@)]
  /\ restore_steps' = 1
  /\ UNCHANGED <<position_, adjacent_tetrahedra_, adjacent_edges_, tetrahedra,
                 edge_tetrahedra, cross_section_area_, cross_section_areas_,
                 checking_index_, triangle_checking_index_, walk, walk_steps, answer,
                 rational,                 removed, log, op,
                 before, history>>

\* restoreDelaunay, one iteration of the inner loop
restoreStep ==
  /\ restoring.node # NullNode
  /\ restore_steps \in 1..MaxFuel
  /\ restoring.w.active # <<>>
  /\ restoring' = [restoring EXCEPT !.w = checkFirstActive(@)]
  /\ restore_steps' = restore_steps + 1
  /\ UNCHANGED <<position_, adjacent_tetrahedra_, adjacent_edges_, tetrahedra,
                 edge_tetrahedra, cross_section_area_, cross_section_areas_,
                 checking_index_, triangle_checking_index_, walk, walk_steps, answer,
                 rational,                 removed, log, op,
                 before, history>>

\* restoreDelaunay, the inner loop has ended: the pass is closed, no
\* tetrahedron is active, the call returns and moveTo tells the listeners
restoreEnd ==
  /\ restoring.node # NullNode
  /\ restoring.w.active = <<>>
  /\ Commit(Notify(IF restore_steps = 0 THEN restoring.w ELSE afterPass(restoring.w),
                   "nodeMoved", restoring.node, <<>>))
  /\ UNCHANGED <<op, removed>>
  /\ history' = Append(history, "moveTo")

\* SpaceNode::remove
remove(n) ==
  /\ Seeded
  /\ ops < Session.ops
  /\ ~Duplicates
  /\ Cardinality(Live) >= 5
  /\ Commit(removeAndReturnCreatedTetrahedron(World, n))
  /\ op' = [name |-> "remove", node |-> n, this |-> n, pos |-> position_[n],
            start |-> NoTet, path |-> "remove", thrown |-> "none"]
  /\ removed' = removed \cup {n}
  /\ history' = Append(history, "remove")

NoOp(first) ==
  [name |-> "create", node |-> 1, this |-> NullNode, pos |-> first,
   start |-> NoTet, path |-> "none", thrown |-> "none"]

\* the state after construction, checking_index_ being a static of the process
Start(index, first) ==
  /\ position_ = <<first>>
  /\ adjacent_tetrahedra_ = << <<>> >>
  /\ adjacent_edges_ = << <<>> >>
  /\ tetrahedra = {}
  /\ edge_tetrahedra = <<>>
  /\ cross_section_area_ = <<>>
  /\ cross_section_areas_ = <<>>
  /\ checking_index_ = index
  /\ triangle_checking_index_ = <<>>
  /\ restoring = NoCall
  /\ restore_steps = 0
  /\ walk = NoWalk
  /\ walk_steps = 0
  /\ answer = NoAnswer
  /\ removed = {}
  /\ log = <<>>
  /\ op = NoOp(first)
  /\ before = [pos |-> <<>>, tets |-> {}, ntets |-> <<>>, nedges |-> <<>>,
               etets |-> <<>>, removed |-> {}, op |-> NoOp(first), log |-> <<>>,
               tets0 |-> {}, live0 |-> {}]
  /\ history = <<>>

Init == Start(0, Positions[1]) /\ rational = NoRational

InitLate == Start(CheckingIndexModulus - 2, Positions[1]) /\ rational = NoRational

Next ==
  \/ \E this \in Requesters, i \in 1..Len(Positions) : getNewInstance(this, Positions[i])
  \/ \E n \in Live : remove(n)
  \/ \E n \in Live, i \in 1..Len(Positions) : moveTo(n, Positions[i])

Spec == Init /\ [][Next]_vars

\* the program with restoreDelaunay taken one loop iteration at a time; a
\* call that has begun goes on running
NextByStep ==
  \/ /\ restoring.node = NullNode
     /\ \E this \in Requesters, i \in 1..Len(Positions) : getNewInstance(this, Positions[i])
  \/ /\ restoring.node = NullNode
     /\ \E n \in Live : remove(n)
  \/ \E n \in Live, i \in 1..Len(Positions) : moveToByReinsertion(n, Positions[i])
  \/ \E n \in Live, i \in 1..Len(Positions) : moveToBegin(n, Positions[i])
  \/ restoreBeginPass
  \/ restoreStep
  \/ restoreEnd

\* the call under way passes its next loop head, or returns: the steps of
\* restoreBeginPass, restoreStep and restoreEnd as the counter shows them
restoreAdvances ==
  /\ restoring.node # NullNode
  /\ restoring.w.active = <<>> \/ restore_steps <= MaxFuel
  /\ restore_steps' \in {0, restore_steps + 1}

SpecByStep ==
  /\ Init
  /\ [][NextByStep]_vars
  /\ WF_restore_steps(restoreAdvances)

\* the program with searchInitialInsertionTetrahedron taken one loop
\* iteration at a time when getNewInstance calls it
NextByWalk ==
  \/ /\ ~Seeded
     /\ \E i \in 1..Len(Positions) : getNewInstance(1, Positions[i])
  \/ \E this \in Requesters, i \in 1..Len(Positions) : walkBegin(this, Positions[i])
  \/ walkStep
  \/ walkEnd
  \/ /\ walk.this = NullNode
     /\ \E n \in Live : remove(n)
  \/ /\ walk.this = NullNode
     /\ \E n \in Live, i \in 1..Len(Positions) : moveTo(n, Positions[i])

\* the walk under way makes its next iteration, or returns: the steps of
\* walkStep and walkEnd as the counter shows them
walkAdvances ==
  /\ walk.this # NullNode
  /\ IF walkIsOver(walk.current, walk.last)
     THEN walk_steps' = 0
     ELSE walk_steps <= MaxFuel /\ walk_steps' = walk_steps + 1

SpecByWalk ==
  /\ Init
  /\ [][NextByWalk]_vars
  /\ WF_walk_steps(walkAdvances)

\* the nodes are inserted and a client asks edges for opposite endpoints
NextWithEdgeCalls ==
  \/ \E this \in Requesters, i \in 1..Len(Positions) : getNewInstance(this, Positions[i])
  \/ \E e \in DOMAIN edge_tetrahedra, n \in Live : callGetOpposite(e, n)

SpecWithEdgeCalls == Init /\ [][NextWithEdgeCalls]_vars

\* ------------------------------------------------------------- Rational
MaxNumerator == 4

MaxDenominator == 2

\* Rational::Rational(numerator, denominator): value_{numerator / denominator},
\* the quotient of two int64_t, rounded towards zero
RationalValue(numerator, denominator) ==
  IF numerator >= 0 THEN numerator \div denominator
  ELSE 0 - ((0 - numerator) \div denominator)

\* Rational::subtract: auto value = value_ + other->value_
subtract(this, other) == this + other

\* Rational::compareTo: STLUtil::sgn(this->subtract(other)->value_)
compareTo(this, other) == Sgn(subtract(this, other))

\* Rational::equalTo: compareTo(other) == 0
equalTo(this, other) == compareTo(this, other) = 0

InitRational ==
  /\ Start(0, Positions[1])
  /\ \E n1, n2 \in (0 - MaxNumerator)..MaxNumerator, d1, d2 \in 1..MaxDenominator :
       rational = [a |-> RationalValue(n1, d1), b |-> RationalValue(n2, d2),
                   call |-> "none", result |-> 0]

Called(name, value) ==
  /\ rational' = [rational EXCEPT !.call = name, !.result = value]
  /\ UNCHANGED <<position_, adjacent_tetrahedra_, adjacent_edges_, tetrahedra,
                 edge_tetrahedra, cross_section_area_, cross_section_areas_,
                 checking_index_, triangle_checking_index_, restoring, restore_steps,
                 walk, walk_steps, answer, removed, log, op, before, history>>

\* a.subtract(b), a.compareTo(b), b.compareTo(a) and a.equalTo(a)
callSubtract == Called("subtract", subtract(rational.a, rational.b))

callCompareTo == Called("compareTo", compareTo(rational.a, rational.b))

callCompareToBack == Called("compareToBack", compareTo(rational.b, rational.a))

callEqualToItself == Called("equalToItself", equalTo(rational.a, rational.a))

NextRational ==
  \/ callSubtract
  \/ callCompareTo
  \/ callCompareToBack
  \/ callEqualToItself

SpecRational == InitRational /\ [][NextRational]_vars

\* the second session: the eight nodes are created in turn, then nodes are
\* moved and removed
InitCrowded == Start(0, CrowdedPositions[1]) /\ rational = NoRational

NextCrowded ==
  \/ getNewInstance(1, CrowdedPositions[Len(position_) + 1])
  \/ /\ Len(position_) = CrowdedNodes
     /\ \E n \in Live, i \in 1..Len(CrowdedPositions) : moveTo(n, CrowdedPositions[i])
  \/ /\ Len(position_) = CrowdedNodes
     /\ \E n \in Live : remove(n)

SpecCrowded == InitCrowded /\ [][NextCrowded]_vars

\* the same program late in a session: most checking indices have been used
SpecLate == InitLate /\ [][Next]_vars

\* ------------------------------------------------------------- properties
OnlyInserts == \A i \in 1..Len(history) : history[i] = "insert"

NonFlatFinite(t) == ~isInfinite(t) /\ ~Orient3Degenerate(World, t)

EventsOf(l, name) == {i \in 1..Len(l) : l[i].ev = name}

TetEvents(l) == EventsOf(l, "tetrahedronCreated") \cup EventsOf(l, "tetrahedronRemoved")

\* C1: after any sequence of insert operations no node lies strictly inside
\* the circumsphere of a valid finite non-flat tetrahedron it is not a vertex
\* of: T.orientation(n.position) <= 0.
C1_DelaunayAfterInserts ==
  (Seeded /\ OnlyInserts) =>
    \A t \in tetrahedra : NonFlatFinite(t) =>
      \A n \in Live \ NodesOf(t) : orientation(World, t, position_[n]) <= 0

\* two inserts have been made and the second one's cavity took more than the
\* tetrahedron the walk ended in
C1_Witness ==
  /\ OnlyInserts /\ Len(history) >= 2 /\ ~Duplicates
  /\ Cardinality(EventsOf(log, "tetrahedronRemoved")) >= 2

FiniteTriangles ==
  {tri \in UNION {{TriangleAt(t, i) : i \in 1..4} : t \in tetrahedra} : NullNode \notin tri}

C3_InsertThenRemove ==
  (op.name = "remove" /\ before.op.path = "insert" /\ before.op.node = op.node) =>
    /\ Live = before.live0
    /\ {NodesOf(t) : t \in tetrahedra} = {NodesOf(t) : t \in before.tets0}

\* a node whose insertion had opened a cavity of several tetrahedra has
\* been removed again at once
C3_Witness ==
  /\ op.name = "remove" /\ before.op.path = "insert" /\ before.op.node = op.node
  /\ Cardinality(EventsOf(before.log, "tetrahedronRemoved")) >= 2
  /\ EventsOf(log, "tetrahedronCreated") # {}

LiveBefore == DOMAIN before.pos \ before.removed

\* the last operation was an insert at the position of a node already there
DuplicateInsert ==
  /\ op.name = "getNewInstance" /\ op.path = "insert"
  /\ \E m \in LiveBefore : before.pos[m] = op.pos

\* C4: inserting a node at the position of a node already in the
\* triangulation fails with PositionNotAllowed and changes no tetrahedron,
\* triangle, edge or node of the triangulation.
C4_DuplicateInsertRejected ==
  DuplicateInsert =>
    /\ op.thrown = "PositionNotAllowed"
    /\ tetrahedra = before.tets
    /\ edge_tetrahedra = before.etets
    /\ SubSeq(adjacent_tetrahedra_, 1, Len(before.pos)) = before.ntets
    /\ SubSeq(adjacent_edges_, 1, Len(before.pos)) = before.nedges
    /\ SubSeq(position_, 1, Len(before.pos)) = before.pos

\* the last operation was a slow-path move onto the position of another node
SlowMoveOntoNode ==
  /\ op.name = "moveTo" /\ op.path = "slow"
  /\ \E m \in LiveBefore \ {op.node} : before.pos[m] = op.pos

\* C5: when the slow path of moveTo re-inserts the node at a position that
\* is not allowed, the node's position is set back to the one it had before
\* the call.
C5_SlowPathRevertsPosition ==
  SlowMoveOntoNode => position_[op.node] = before.pos[op.node]

\* C6: every moveTo delivers nodeAboutToMove to each listener exactly once,
\* and before the node's position is changed, on the fast and the slow path.
C6_AboutToMoveOnce ==
  op.name = "moveTo" =>
    \A l \in 1..NumListeners :
      LET E == {i \in EventsOf(log, "nodeAboutToMove") :
                  log[i].lis = l /\ log[i].node = op.node}
      IN  /\ Cardinality(E) = 1
          /\ \A i \in E : \A j \in EventsOf(log, "positionChanged") : i < j

\* C7: every moveTo delivers nodeMoved to each listener, and no tetrahedron
\* is created or removed by that moveTo after nodeMoved has been delivered.
C7_MovedAfterFlips ==
  op.name = "moveTo" =>
    \A l \in 1..NumListeners :
      \E i \in EventsOf(log, "nodeMoved") :
        /\ log[i].lis = l /\ log[i].node = op.node
        /\ \A j \in TetEvents(log) : j < i

\* where in the log the insert of the last operation begins
InsertBegin ==
  IF op.path = "slow" THEN CHOOSE j \in EventsOf(log, "positionChanged") : TRUE ELSE 0

\* C8: during insert nodeAboutToBeAdded reaches every listener before any
\* tetrahedron is removed or created and carries the user objects of the four
\* vertices of the tetrahedron the walk ended in; nodeAdded is delivered
\* after the last new tetrahedron has been created.
C8_InsertCallbacks ==
  op.path \in {"insert", "slow"} =>
    \A l \in 1..NumListeners :
      /\ \E i \in EventsOf(log, "nodeAboutToBeAdded") :
           /\ log[i].lis = l /\ log[i].node = op.node
           /\ log[i].arg = getVerticeContents(op.start)
           /\ i > InsertBegin
           /\ \A j \in TetEvents(log) : j > InsertBegin => i < j
      /\ \E i \in EventsOf(log, "nodeAdded") :
           /\ log[i].lis = l /\ log[i].node = op.node
           /\ \A j \in EventsOf(log, "tetrahedronCreated") : j < i

\* an insert whose walk ended in a finite tetrahedron has opened a cavity of
\* several tetrahedra and filled it
C8_Witness ==
  /\ op.path = "insert" /\ ~DuplicateInsert
  /\ op.start # NoTet /\ ~isInfinite(op.start)
  /\ Cardinality(EventsOf(log, "tetrahedronRemoved")) >= 2
  /\ Cardinality(EventsOf(log, "tetrahedronCreated")) >= 4

\* C9: remove() delivers nodeAboutToBeRemoved before any incident
\* tetrahedron is removed and nodeRemoved after the cavity is retriangulated;
\* afterwards the node is a vertex of no valid tetrahedron and its list of
\* incident tetrahedra is empty.
C9_RemoveCallbacks ==
  op.name = "remove" =>
    /\ \A l \in 1..NumListeners :
         /\ \E i \in EventsOf(log, "nodeAboutToBeRemoved") :
              /\ log[i].lis = l /\ log[i].node = op.node
              /\ \A j \in TetEvents(log) : i < j
         /\ \E i \in EventsOf(log, "nodeRemoved") :
              /\ log[i].lis = l /\ log[i].node = op.node
              /\ \A j \in TetEvents(log) : j < i
    /\ \A t \in tetrahedra : op.node \notin NodesOf(t)
    /\ adjacent_tetrahedra_[op.node] = <<>>

\* a node has been removed and the hole it left has got new tetrahedra
C9_Witness ==
  /\ op.name = "remove"
  /\ EventsOf(log, "tetrahedronRemoved") # {}
  /\ EventsOf(log, "tetrahedronCreated") # {}

\* C10: after every public operation, the getNewInstance calls before the
\* initial tetrahedron included, every edge in some node's edge list is
\* incident to at least one tetrahedron.
C10_EdgesHaveTetrahedra ==
  \A n \in Nodes : \A k \in 1..Len(adjacent_edges_[n]) :
    /\ adjacent_edges_[n][k] \in DOMAIN edge_tetrahedra
    /\ edge_tetrahedra[adjacent_edges_[n][k]] # {}

\* what tetrahedron t has recorded for the edge e
Contribution(t, e) ==
  cross_section_areas_[t][CHOOSE k \in 1..6 :
                            {EdgePair(t, k)[1], EdgePair(t, k)[2]} = {e[1], e[2]}]

RECURSIVE Contributions(_, _)
Contributions(e, S) ==
  IF S = {} THEN 0
  ELSE Contribution(CHOOSE t \in S : TRUE, e) + Contributions(e, S \ {CHOOSE t \in S : TRUE})

Released == {i \in 1..Len(log) : log[i].ev = "organizerReleased"}

IndexEvents == EventsOf(log, "createNewCheckingIndex")

\* C13: the checking indices that createNewCheckingIndex hands out during one
\* restoreDelaunay call never decrease from one call to the next, and the
\* index stays within 0..2*10^9, also when the counter wraps.
C13_CheckingIndexInPass ==
  /\ checking_index_ \in 0..CheckingIndexModulus
  /\ \A i \in IndexEvents : log[i].arg \in 0..CheckingIndexModulus
  /\ \A i, j \in IndexEvents : i < j => log[i].arg <= log[j].arg

\* a restoration was handed the index 0 after the counter had reached its
\* modulus, and a triangle of the pass before is still in the triangulation
C13_Witness ==
  /\ op.name = "moveTo" /\ op.path = "fast"
  /\ \E i \in IndexEvents : log[i].arg = 0
  /\ checking_index_ = 0
  /\ \E tri \in DOMAIN triangle_checking_index_ :
       triangle_checking_index_[tri] = CheckingIndexModulus - 1

\* C14: the checking index a triangle carries never exceeds the index of the
\* session, also after the counter has wrapped.
C14_StampAtMostIndex ==
  \A tri \in DOMAIN triangle_checking_index_ :
    triangle_checking_index_[tri] <= checking_index_

MovedToOwnPosition ==
  op.name = "moveTo" /\ op.node \in DOMAIN before.pos /\ op.pos = before.pos[op.node]

TrianglesOf(ts) == UNION {{TriangleAt(t, i) : i \in 1..4} : t \in ts}

EndpointsOf(es) == {{e[1], e[2]} : e \in es}

C16_RestoreDelaunayTerminates ==
  (restoring.node # NullNode) ~> (restoring.node = NullNode)

\* a restoration is under way that has flipped and still has active
\* tetrahedra to look at
C16_Witness ==
  /\ restoring.node # NullNode
  /\ restore_steps >= 3
  /\ restoring.w.active # <<>>
  /\ EventsOf(restoring.w.log, "tetrahedronCreated") # {}

C18_NonEndpointReported ==
  (answer.edge # <<>> /\ answer.node \notin {answer.edge[1], answer.edge[2]}) =>
    answer.thrown = "EdgeNotIncident"

\* C20: a.subtract(b) is a - b, a.compareTo(b) is the sign of a - b and the
\* opposite of b.compareTo(a), and a.equalTo(a) holds.
C20_SubtractAndCompare ==
  /\ rational.call = "subtract" => rational.result = rational.a - rational.b
  /\ rational.call = "compareTo" =>
       /\ rational.result = Sgn(rational.a - rational.b)
       /\ rational.result = 0 - compareTo(rational.b, rational.a)
  /\ rational.call = "compareToBack" => rational.result = Sgn(rational.b - rational.a)
  /\ rational.call = "equalToItself" => rational.result = TRUE

FiniteTets == {t \in tetrahedra : ~isInfinite(t)}

InfiniteTets == {t \in tetrahedra : isInfinite(t)}

\* C21: seeding by three getNewInstance calls on the first node creates no
\* tetrahedron on the first two calls and on the third exactly one finite
\* tetrahedron on the four nodes with four infinite tetrahedra adjacent to
\* it; from then on each of the four nodes has incident tetrahedra.
C21_SeedingByThreeCalls ==
  /\ Len(position_) <= 3 => tetrahedra = {}
  /\ (op.path = "seed" /\ Len(position_) = 4) =>
       /\ Cardinality(FiniteTets) = 1
       /\ \A t \in FiniteTets :
            /\ NodesOf(t) = 1..4
            /\ \A u \in InfiniteTets : isNeighbor(World, t, u)
            /\ {TriangleAt(t, i) : i \in 1..4} =
                 {NodesOf(u) \ {NullNode} : u \in InfiniteTets}
       /\ Cardinality(InfiniteTets) = 4
  /\ Len(position_) >= 4 =>
       \A n \in (1..4) \ removed : adjacent_tetrahedra_[n] # <<>>

\* the third seeding call has just returned
C21_Witness ==
  /\ op.name = "getNewInstance" /\ op.path = "seed" /\ op.this = 1
  /\ Len(position_) = 4
  /\ Cardinality(tetrahedra) = 5
  /\ \A n \in 1..4 : Len(adjacent_tetrahedra_[n]) = 4


\* the triangulation the last operation started from
WorldBefore ==
  [World EXCEPT !.pos = before.pos, !.tets = before.tets, !.ntets = before.ntets,
                !.nedges = before.nedges, !.etets = before.etets]

\* the local-validity check of one incident tetrahedron of a node
LocallyValid(W, n, t, new_position) ==
  IF isInfinite(t)
  THEN \A i \in 1..4 :
         isInfinite(getOppositeTetrahedron(
           W, TriangleAt(getOppositeTetrahedron(W, TriangleAt(t, 1), t), i),
           getOppositeTetrahedron(W, TriangleAt(t, 1), t)))
  ELSE /\ ~Orient3Degenerate(W, t)
       /\ trulyOnSameSide(W, NodesOf(t) \ {n}, P(W, n), new_position)

\* C22: moveTo keeps the node in place and restores (the fast path) only if
\* the local-validity check holds for every incident tetrahedron of the
\* node, whatever the order of the node's tetrahedron list.
C22_FastPathOnlyIfAllValid ==
  (op.name = "moveTo" /\ op.path = "fast") =>
    \A t \in Range(before.ntets[op.node]) : LocallyValid(WorldBefore, op.node, t, op.pos)


InsertRemoved == {log[i].arg : i \in {j \in EventsOf(log, "tetrahedronRemoved") : j > InsertBegin}}

InsertCreated == {i \in EventsOf(log, "tetrahedronCreated") : i > InsertBegin}

\* the faces of the cavity that one removed tetrahedron has and no other
OuterCavityTriangles ==
  {tri \in UNION {{TriangleAt(t, i) : i \in 1..4} : t \in InsertRemoved} :
     Cardinality({t \in InsertRemoved : tri \subseteq NodesOf(t)}) = 1}

\* C26: insert creates exactly one new tetrahedron on each outer-cavity
\* triangle, each with the new node as a vertex, and returns one of the
\* tetrahedra it created: a valid tetrahedron incident to the new node.
C26_OneTetrahedronPerOuterTriangle ==
  op.path \in {"insert", "slow"} =>
    /\ \A i \in InsertCreated : op.node \in NodesOf(log[i].arg)
    /\ {NodesOf(log[i].arg) \ {op.node} : i \in InsertCreated} = OuterCavityTriangles
    /\ Cardinality(InsertCreated) = Cardinality(OuterCavityTriangles)
    /\ \E r \in EventsOf(log, "insertReturned") :
         /\ \A i \in InsertCreated : i < r
         /\ log[r].arg \in {log[i].arg : i \in InsertCreated}
         /\ log[r].arg \in tetrahedra
         /\ op.node \in NodesOf(log[r].arg)

\* an insert whose cavity took three tetrahedra or more, one of them
\* infinite, and was closed by a star of six or more
C26_Witness ==
  /\ op.path = "insert" /\ ~DuplicateInsert
  /\ Cardinality(InsertRemoved) >= 3
  /\ \E t \in InsertRemoved : isInfinite(t)
  /\ Cardinality(InsertCreated) >= 6
  /\ Cardinality(OuterCavityTriangles) >= 6


C28_SeedingEdgesJoinDistinctNodes ==
  ~Seeded =>
    /\ \A e \in DOMAIN edge_tetrahedra : e[1] # e[2]
    /\ \A n \in Nodes : \A i, j \in 1..Len(adjacent_edges_[n]) :
         adjacent_edges_[n][i] = adjacent_edges_[n][j] => i = j


\* the calls of the flips in the log of the last operation
FlipCalls(name) == {log[i].arg : i \in EventsOf(log, name)}

CleanUpCalls == EventsOf(log, "cleanUp")

\* where the loop of the cleanUp call at i has set done
DoneOf(i) == Min({j \in EventsOf(log, "done") : j > i} \cup {Len(log) + 1})

\* the tetrahedra taken out between two places of the log
RemovedBetween(i, j) ==
  {k \in EventsOf(log, "tetrahedronRemoved") : i < k /\ k < j}

\* C30: cleanUp terminates: its loop ends by setting done with no problem
\* tetrahedron left among the outer ones, every iteration before that removes
\* one tetrahedron that is still valid, and no tetrahedron is removed twice.
C30_CleanUpTerminates ==
  \A i \in CleanUpCalls :
    /\ DoneOf(i) <= Len(log)
    /\ log[DoneOf(i)].arg = {}
    /\ \A k \in (i + 1)..(DoneOf(i) - 1) : log[k].ev \in {"tetrahedronRemoved", "outer"}
    /\ \A k \in (i + 1)..(DoneOf(i) - 1) :
         log[k].ev = "outer" =>
           /\ log[k + 1].ev = "tetrahedronRemoved" /\ log[k + 1].arg = log[k].arg
           /\ \A m \in RemovedBetween(i, k) : log[m].arg # log[k].arg
    /\ \A k, m \in RemovedBetween(i, DoneOf(i)) :
         /\ log[k].arg \in log[i].arg.valid
         /\ log[k].arg = log[m].arg => k = m
    /\ Cardinality(RemovedBetween(i, DoneOf(i))) < MaxFuel

\* a cleanUp whose loop has removed an outer tetrahedron before it set done
C30_Witness ==
  /\ op.name = "moveTo" /\ op.path = "fast"
  /\ \E i \in CleanUpCalls :
       /\ log[i].arg.messed # <<>>
       /\ \E k \in EventsOf(log, "outer") : i < k /\ k < DoneOf(i)
       /\ DoneOf(i) <= Len(log)


\* where the cleanUp call at i has returned: its organizer is released
ReturnOf(i) == Min({j \in Released : j > i} \cup {Len(log) + 1})

\* C23: after cleanUp the outer loop of restoreDelaunay runs again: a new
\* checking index is made after cleanUp has returned, before restoreDelaunay
\* returns.
C23_LoopRunsAgainAfterCleanUp ==
  \A i \in CleanUpCalls :
    \E k \in EventsOf(log, "createNewCheckingIndex") : k > ReturnOf(i)

\* a valid finite tetrahedron whose circumsphere truly holds the apex of a
\* finite neighbour
MessedUpLeft == {t \in tetrahedra : ~isInfinite(t) /\ stillMessedUp(World, t)}

\* C19: when restoreDelaunay has called cleanUp and messed up tetrahedra are
\* still there when it ends, InvariantViolated is thrown or logged.
C19_MessedUpAfterCleanUpIsSurfaced ==
  (op.name = "moveTo" /\ op.path = "fast" /\ CleanUpCalls # {} /\ MessedUpLeft # {}) =>
    \/ op.thrown = "InvariantViolated"
    \/ EventsOf(log, "InvariantViolated") # {}


====
